---- MODULE Spec2Model ----
(***************************************************************************)
(* A model of three parts of the repository:                               *)
(*                                                                         *)
(*  - the commit protocol of the file-operations tool server               *)
(*    (src/src/mcp/github-file-ops-server.ts: commit_files, delete_files), *)
(*    run by several invocations against one branch ref of the host,       *)
(*    together with one other writer pushing to the same branch            *)
(*    (specification CommitSpec);                                          *)
(*                                                                         *)
(*  - the six tools of that server, the four that make a single host call *)
(*    included, called one after the other (specification ToolSpec);       *)
(*                                                                         *)
(*  - the prepare pipeline (src/src/entrypoints/prepare.ts: run), one run  *)
(*    per triggering event (specification PrepareSpec).                    *)
(*                                                                         *)
(* A path is a sequence of one-character strings, so that startsWith and   *)
(* slice are computed as the code computes them.                           *)
(***************************************************************************)
EXTENDS Integers, Sequences, FiniteSets, TLC

(***************************************************************************)
(* Bounds of the model.                                                    *)
(***************************************************************************)
\* number of tool invocations (commit_files / delete_files) in one behaviour
NumInv == 2
\* most open pull requests the lookup of the redirect step returns
MaxPrs == 2
\* most comments the host holds before the run
MaxOldComments == 1

Procs == 1..NumInv

(***************************************************************************)
(* Strings: paths as sequences of characters.                              *)
(***************************************************************************)
StartsWith(s, pre) ==
    /\ Len(s) >= Len(pre)
    /\ SubSeq(s, 1, Len(pre)) = pre

\* String.prototype.slice(n) for n >= 0
Slice(s, n) == SubSeq(s, n + 1, Len(s))

Sep == <<"/">>

\* process.cwd() of the server; REPO_DIR defaults to it
Cwd == <<"/", "w">>
REPO_DIR == Cwd

\* path.join(REPO_DIR, filePath) for the relative paths of the model
Join(dir, filePath) == IF filePath = <<>> THEN dir ELSE dir \o Sep \o filePath

\* the files of the local working storage (full paths); /w/c does not exist
LocalFiles ==
    { <<"/", "w", "/", "a">>, <<"/", "w", "/", "b">>, <<"/", "x">> }

(***************************************************************************)
(* commit_files: path processing and local reads.                          *)
(***************************************************************************)
\* a path processing that keeps the requested path
KeepPath(filePath) == filePath

ProcessFilePath(filePath) ==
    IF StartsWith(filePath, Sep) THEN Slice(filePath, 1) ELSE filePath

ProcessFiles(files) == [i \in DOMAIN files |-> ProcessFilePath(files[i])]

FullPath(filePath) ==
    IF StartsWith(filePath, Sep) THEN filePath ELSE Join(REPO_DIR, filePath)

\* readFile(fullPath) resolves iff the file exists
ReadFileOk(filePath) == FullPath(filePath) \in LocalFiles

\* reads that settle one by one, the batch going on when one of them resolves
ReadAnyOk(processedFiles) ==
    \E i \in DOMAIN processedFiles : ReadFileOk(processedFiles[i])

\* Promise.all over the reads: resolves iff every read resolves
ReadAllOk(processedFiles) ==
    \A i \in DOMAIN processedFiles : ReadFileOk(processedFiles[i])

WriteEntry(filePath) ==
    [path |-> filePath, mode |-> "100644", type |-> "blob",
     content |-> FullPath(filePath), sha |-> "absent"]

WriteEntries(processedFiles) ==
    [i \in DOMAIN processedFiles |-> WriteEntry(processedFiles[i])]

(***************************************************************************)
(* delete_files: path processing.                                          *)
(***************************************************************************)
\* the throw of the path map: an absolute path that is not under cwd
DeletePathRejected(filePath) ==
    StartsWith(filePath, Sep) /\ ~StartsWith(filePath, Cwd)

ProcessDeletePath(filePath) ==
    IF StartsWith(filePath, Sep) THEN Slice(filePath, Len(Cwd) + 1) ELSE filePath

ProcessPaths(paths) == [i \in DOMAIN paths |-> ProcessDeletePath(paths[i])]

AnyPathRejected(paths) == \E i \in DOMAIN paths : DeletePathRejected(paths[i])

DeleteEntry(path) ==
    [path |-> path, mode |-> "100644", type |-> "blob",
     content |-> <<>>, sha |-> "null"]

DeleteEntries(processedPaths) ==
    [i \in DOMAIN processedPaths |-> DeleteEntry(processedPaths[i])]

(***************************************************************************)
(* State.                                                                  *)
(***************************************************************************)
VARIABLES
    \* commit protocol
    GITHUB_TOKEN,   \* process.env.GITHUB_TOKEN is set (TRUE) or absent (FALSE)
    BRANCH_NAME,    \* process.env.BRANCH_NAME at the server's start-up
    refs,           \* the host's branch refs refs/heads/<branch>: branch -> sha
    commits,        \* the host's commit objects: sha -> [parent, tree, by]
    trees,          \* the host's tree objects: sha -> [base, entries, by]
    extPushed,      \* the other writer has pushed to the branch
    inv,            \* the tool invocations: p -> the handler's locals and position
    issues,         \* the host's issues and pull requests, in creation order
    \* prepare pipeline
    context,        \* the parsed event: [isPR, containsTrigger]
    run,            \* the locals and position of run()
    comments,       \* the host's comments: id -> [on, edits]
    outputs         \* what the run leaves to later steps, and its exit

commitVars ==
    <<GITHUB_TOKEN, BRANCH_NAME, refs, commits, trees, extPushed, inv, issues>>

prepareVars == <<context, run, comments, outputs>>

vars == <<commitVars, prepareVars>>

(***************************************************************************)
(* The host's objects.  A sha is a tuple naming the object's creator, so   *)
(* that every created object has a sha no earlier object has: the root     *)
(* commit and tree, the objects created for invocation p, and those of the *)
(* other writer's push.  NoSha stands for "no value".                      *)
(***************************************************************************)
NoSha == <<>>
RootSha == <<"root">>
ExtSha == <<"ext">>
FreshSha(p) == <<"inv", p>>

\* the branches of the host: the default branch, the branch created for an
\* issue and the head branch of a pull request
NoBranch == ""
DefaultBranch == "main"
PrHeadBranch == "pr/head"

\* branchInfo.claudeBranch as the Branch Resolver sets it: a new branch for
\* an issue event, none for a pull-request event
ClaudeBranchFor(isPR) == IF isPR THEN NoBranch ELSE "claude/issue"

\* branchInfo.currentBranch as the Branch Resolver sets it: the head branch
\* of the pull request, or the branch created for the issue
CurrentBranchFor(isPR) == IF isPR THEN PrHeadBranch ELSE ClaudeBranchFor(isPR)

Branches == {DefaultBranch} \cup {CurrentBranchFor(isPR) : isPR \in BOOLEAN}

\* the environment prepareMcpConfig gives the server: the branch it works on
McpConfigEnv(branch) == [BRANCH_NAME |-> branch]

\* the branches a run of the pipeline can start the server for
HandedOffBranches ==
    {McpConfigEnv(CurrentBranchFor(isPR)).BRANCH_NAME : isPR \in BOOLEAN}

\* a handler that works on the default branch
HandlerBranchDefault(env) == DefaultBranch

\* const branch = BRANCH_NAME: the branch of every request of a handler
HandlerBranch(env) == env

\* every branch starts on the root commit
RootRefs == [b \in Branches |-> RootSha]

\* the ref of the branch the server was started for
ref == refs[BRANCH_NAME]

\* the writers of the ref
ExtWriter == <<"ext">>
Writer(p) == <<"inv", p>>

RECURSIVE IsAncestor(_, _)
\* a is b or an ancestor of b
IsAncestor(a, b) ==
    IF b = NoSha \/ b \notin DOMAIN commits THEN FALSE
    ELSE IF a = b THEN TRUE
    ELSE IsAncestor(a, commits[b].parent)

\* a forced update
UpdateRefForced == TRUE

\* body of the PATCH of step 6
UpdateRefForce == FALSE

\* a host that takes every update
HostAcceptsAny(branch, sha, force) == TRUE

\* the host's answer to PATCH git/refs/heads/<branch> {sha, force}
HostAcceptsUpdate(branch, sha, force) == force \/ IsAncestor(refs[branch], sha)

ConflictResponse == [status |-> 422, body |-> "Update is not a fast forward"]

\* the non-2xx answers the host gives for reasons other than a moved ref
HostFaults == { [status |-> 404, body |-> "Not Found"] }

\* the non-2xx answers to the PATCH of step 6 for reasons other than a moved
\* ref: those of every call, and a 422 of the host's own for a ref it does
\* not let the caller update
UpdateRefFaults ==
    HostFaults \cup
    { [status |-> 422, body |-> "Cannot update this protected ref"] }

\* a message that names the failed step only
UpdateRefMessageBare(response) == [status |-> 0, body |-> ""]

\* `Failed to update reference: ${updateRefResponse.status} - ${errorText}`
UpdateRefMessage(response) ==
    [status |-> response.status, body |-> response.body]

(***************************************************************************)
(* Invocations.                                                            *)
(***************************************************************************)
Requests ==
    { [tool |-> "commit_files", files |-> << <<"/", "a">>, <<"b">> >>],
      [tool |-> "commit_files", files |-> << <<"a">>, <<"c">> >>],
      [tool |-> "delete_files", files |-> << <<"/", "w", "/", "a">>, <<"b">> >>],
      [tool |-> "delete_files", files |-> << <<"a">>, <<"/", "x">> >>] }

\* "no comment id", "no lookup made": ids and counts are naturals
NoId == 0 - 1

\* the tools that run the commit protocol
CommitTools == {"commit_files", "delete_files"}

\* requests whose paths begin with more than one separator, or have one
\* right after the working directory
SeparatorRequests ==
    { [tool |-> "commit_files", files |-> << <<"/", "/", "x">> >>],
      [tool |-> "delete_files", files |-> << <<"/", "w", "/", "/", "a">> >>] }

\* requests of the tools that make one host call; the comment named by
\* update_issue_comment is the first comment of the host
OneCallRequests ==
    { [tool |-> "create_issue", files |-> <<>>],
      [tool |-> "update_issue_comment", files |-> <<>>, commentId |-> 1],
      [tool |-> "create_pull_request", files |-> <<>>],
      [tool |-> "list_issues", files |-> <<>>] }

\* a delete_files request with an absolute path in a directory beside the
\* working directory whose name begins with the working directory's name
SiblingRequests ==
    { [tool |-> "delete_files",
       files |-> << <<"b">>, <<"/", "w", "z", "/", "a">> >>] }

ToolRequests ==
    Requests \cup SeparatorRequests \cup SiblingRequests \cup OneCallRequests

NoResult ==
    [kind |-> "none", step |-> "none", status |-> 0, body |-> "",
     commitSha |-> NoSha, treeSha |-> NoSha, paths |-> <<>>]

\* a catch block that returns nothing
NoPayload(step, status, body) == NoResult

\* the payload of the catch block: isError, with the message of the step
ErrorResult(step, status, body) ==
    [kind |-> "error", step |-> step, status |-> status, body |-> body,
     commitSha |-> NoSha, treeSha |-> NoSha, paths |-> <<>>]

\* a handler that throws once the ref update has been accepted
ReportsError(commitSha, treeSha, paths) == ErrorResult("updateRef", 0, "")

\* simplifiedResult: commit.sha, tree.sha and the processed paths
SuccessResult(commitSha, treeSha, paths) ==
    [kind |-> "success", step |-> "none", status |-> 0, body |-> "",
     commitSha |-> commitSha, treeSha |-> treeSha, paths |-> paths]

\* a result that lists the first path only
ResultFilesFirst(processedFiles) == SubSeq(processedFiles, 1, 1)

\* files: processedFiles.map((path) => ({ path })), in the order processed
ResultFiles(processedFiles) == processedFiles

Idle ==
    [pc |-> "idle", tool |-> "none", files |-> <<>>, processedFiles |-> <<>>,
     baseSha |-> NoSha, baseTreeSha |-> NoSha, treeEntries |-> <<>>,
     treeSha |-> NoSha, newCommitSha |-> NoSha, result |-> NoResult,
     calls |-> <<>>, movedBy |-> {}, commentId |-> NoId, branch |-> NoBranch]

\* the positions between the ref read of step 1 and the ref update of step 6
InFlight == {"getCommit", "readFiles", "createTree", "createCommit", "updateRef"}

\* the record of one host call in the invocation's log; the outcome is "ok",
\* "fault" (a non-2xx answer of HostFaults) or "conflict" (a rejected update)
Call(name, outcome) == [call |-> name, outcome |-> outcome]

\* a catch block that issues the failed step again
Retry(p, step, status, body, calls) == [inv EXCEPT ![p].calls = calls]

\* the catch block: the handler returns an error payload
Throw(p, step, status, body, calls) ==
    [inv EXCEPT ![p].pc = "done",
                ![p].result = ErrorResult(step, status, body),
                ![p].calls = calls]

\* a ref write by writer w is seen by every other invocation in flight
NoteMove(f, w) ==
    [q \in Procs |->
        IF Writer(q) # w /\ f[q].pc \in InFlight
        THEN [f[q] EXCEPT !.movedBy = @ \cup {w}]
        ELSE f[q]]

\* the branch before any invocation: one root commit
RootCommits == RootSha :> [parent |-> NoSha, tree |-> RootSha, by |-> ExtWriter]
RootTrees == RootSha :> [base |-> NoSha, entries |-> <<>>, by |-> ExtWriter]

\* the pipeline's variables while the tool server is under study: no run
NoContext == [isPR |-> FALSE, containsTrigger |-> FALSE]
NoRun ==
    [pc |-> "exit", permission |-> "none",
     commentId |-> NoId, finalCommentId |-> NoId, claudeBranch |-> NoBranch,
     currentBranch |-> NoBranch,
     prs |-> NoId, log |-> <<>>, threw |-> {}]
NoOutputs ==
    [exit |-> "running", setFailed |-> FALSE, failedAt |-> "none",
     mcp_config |-> FALSE, BRANCH_NAME |-> NoBranch,
     CLAUDE_COMMENT_ID |-> NoId, promptCommentId |-> NoId]

CommitInit ==
    /\ GITHUB_TOKEN \in BOOLEAN
    /\ BRANCH_NAME = McpConfigEnv(CurrentBranchFor(FALSE)).BRANCH_NAME
    /\ refs = RootRefs
    /\ commits = RootCommits
    /\ trees = RootTrees
    /\ extPushed = FALSE
    /\ inv = [p \in Procs |-> Idle]
    /\ issues = <<>>
    /\ context = NoContext
    /\ run = NoRun
    /\ comments = <<>>
    /\ outputs = NoOutputs

(***************************************************************************)
(* The handlers of commit_files and delete_files, one action per await.    *)
(***************************************************************************)
\* The handler's code up to its first await: the credential check and, for
\* commit_files and delete_files, the path processing.
HandlerStart(p, r) ==
    IF ~GITHUB_TOKEN
    THEN [Throw(p, "token", 0, "", <<>>) EXCEPT
                ![p].tool = r.tool, ![p].files = r.files,
                ![p].branch = HandlerBranch(BRANCH_NAME)]
    ELSE IF r.tool = "delete_files" /\ AnyPathRejected(r.files)
    THEN [Throw(p, "path", 0, "", <<>>) EXCEPT
                ![p].tool = r.tool, ![p].files = r.files,
                ![p].branch = HandlerBranch(BRANCH_NAME)]
    ELSE [inv EXCEPT ![p] =
            [inv[p] EXCEPT
                !.tool = r.tool,
                !.files = r.files,
                !.branch = HandlerBranch(BRANCH_NAME),
                !.pc = IF r.tool \in CommitTools THEN "getRef" ELSE "fetch",
                !.processedFiles =
                    IF r.tool = "commit_files" THEN ProcessFiles(r.files)
                    ELSE IF r.tool = "delete_files" THEN ProcessPaths(r.files)
                    ELSE <<>>,
                !.commentId =
                    IF r.tool = "update_issue_comment" THEN r.commentId
                    ELSE NoId]]

\* A commit_files or delete_files handler starts, while other invocations
\* may be in flight.  Invocations are numbered in the order they start.
Invoke(p) ==
    /\ inv[p].pc = "idle"
    /\ \A q \in Procs : q < p => inv[q].pc # "idle"
    /\ \E r \in Requests : inv' = HandlerStart(p, r)
    /\ UNCHANGED <<GITHUB_TOKEN, BRANCH_NAME, refs, commits, trees, extPushed,
                   issues, prepareVars>>

\* 1. Get the branch reference
GetRef(p) ==
    /\ inv[p].pc = "getRef"
    /\ \/ inv' = [inv EXCEPT ![p].pc = "getCommit",
                             ![p].baseSha = refs[inv[p].branch],
                             ![p].calls = Append(@, Call("getRef", "ok"))]
       \/ \E f \in HostFaults :
            \* the message of a failed ref read carries the status only
            inv' = Throw(p, "getRef", f.status, "",
                         Append(inv[p].calls, Call("getRef", "fault")))
    /\ UNCHANGED <<GITHUB_TOKEN, BRANCH_NAME, refs, commits, trees, extPushed,
                   issues, prepareVars>>

\* 2. Get the base commit; delete_files builds its tree entries right after
GetCommit(p) ==
    /\ inv[p].pc = "getCommit"
    /\ \/ /\ inv[p].baseSha \in DOMAIN commits
          /\ inv' = [inv EXCEPT
                ![p].pc = IF inv[p].tool = "commit_files"
                          THEN "readFiles" ELSE "createTree",
                ![p].baseTreeSha = commits[inv[p].baseSha].tree,
                ![p].treeEntries = IF inv[p].tool = "commit_files"
                                   THEN <<>>
                                   ELSE DeleteEntries(inv[p].processedFiles),
                ![p].calls = Append(@, Call("getCommit", "ok"))]
       \/ \E f \in HostFaults :
            inv' = Throw(p, "getCommit", f.status, "",
                         Append(inv[p].calls, Call("getCommit", "fault")))
    /\ UNCHANGED <<GITHUB_TOKEN, BRANCH_NAME, refs, commits, trees, extPushed,
                   issues, prepareVars>>

\* 3. Create tree entries for all files (commit_files only)
ReadFiles(p) ==
    /\ inv[p].pc = "readFiles"
    /\ IF ReadAllOk(inv[p].processedFiles)
       THEN inv' = [inv EXCEPT ![p].pc = "createTree",
                               ![p].treeEntries = WriteEntries(inv[p].processedFiles)]
       ELSE inv' = Throw(p, "readFile", 0, "", inv[p].calls)
    /\ UNCHANGED <<GITHUB_TOKEN, BRANCH_NAME, refs, commits, trees, extPushed,
                   issues, prepareVars>>

\* a tree submitted without its base tree
NewTreeBodyNoBase(baseTreeSha, treeEntries) ==
    [base |-> NoSha, entries |-> treeEntries]

\* body of the POST of step 4: base_tree and tree
NewTreeBody(baseTreeSha, treeEntries) ==
    [base |-> baseTreeSha, entries |-> treeEntries]

\* 4. Create a new tree
CreateTree(p) ==
    /\ inv[p].pc = "createTree"
    /\ \/ LET body == NewTreeBody(inv[p].baseTreeSha, inv[p].treeEntries) IN
          /\ trees' = (FreshSha(p) :> [base |-> body.base,
                                       entries |-> body.entries,
                                       by |-> Writer(p)]) @@ trees
          /\ inv' = [inv EXCEPT ![p].pc = "createCommit",
                                ![p].treeSha = FreshSha(p),
                                ![p].calls = Append(@, Call("createTree", "ok"))]
       \/ \E f \in HostFaults :
            /\ inv' = Throw(p, "createTree", f.status, f.body,
                            Append(inv[p].calls, Call("createTree", "fault")))
            /\ UNCHANGED trees
    /\ UNCHANGED <<GITHUB_TOKEN, BRANCH_NAME, refs, commits, extPushed, issues, prepareVars>>

\* a commit created without its parent
NewCommitBodyNoParent(treeSha, baseSha) ==
    [tree |-> treeSha, parents |-> <<>>]

\* body of the POST of step 5: tree and parents
NewCommitBody(treeSha, baseSha) ==
    [tree |-> treeSha, parents |-> <<baseSha>>]

\* 5. Create a new commit
CreateCommit(p) ==
    /\ inv[p].pc = "createCommit"
    /\ \/ LET body == NewCommitBody(inv[p].treeSha, inv[p].baseSha) IN
          /\ commits' = (FreshSha(p) :> [parent |-> IF body.parents = <<>>
                                                    THEN NoSha
                                                    ELSE body.parents[1],
                                         tree |-> body.tree,
                                         by |-> Writer(p)]) @@ commits
          /\ inv' = [inv EXCEPT ![p].pc = "updateRef",
                                ![p].newCommitSha = FreshSha(p),
                                ![p].calls = Append(@, Call("createCommit", "ok"))]
       \/ \E f \in HostFaults :
            /\ inv' = Throw(p, "createCommit", f.status, f.body,
                            Append(inv[p].calls, Call("createCommit", "fault")))
            /\ UNCHANGED commits
    /\ UNCHANGED <<GITHUB_TOKEN, BRANCH_NAME, refs, trees, extPushed, issues, prepareVars>>

\* an update that leaves the force flag to the host's default for a push
UpdateRefBodyForced(newCommitSha) ==
    [sha |-> newCommitSha, force |-> TRUE]

\* body of the PATCH of step 6: sha and force
UpdateRefBody(newCommitSha) ==
    [sha |-> newCommitSha, force |-> UpdateRefForce]

\* 6. Update the reference to point to the new commit, and return the result
UpdateRef(p) ==
    /\ inv[p].pc = "updateRef"
    /\ LET body == UpdateRefBody(inv[p].newCommitSha) IN
       \/ /\ HostAcceptsUpdate(inv[p].branch, body.sha, body.force)
          /\ refs' = [refs EXCEPT ![inv[p].branch] = body.sha]
          /\ inv' = NoteMove(
                [inv EXCEPT
                    ![p].pc = "done",
                    ![p].result = SuccessResult(inv[p].newCommitSha,
                                                inv[p].treeSha,
                                                ResultFiles(
                                                    inv[p].processedFiles)),
                    ![p].calls = Append(@, Call("updateRef", "ok"))],
                Writer(p))
       \/ /\ ~HostAcceptsUpdate(inv[p].branch, body.sha, body.force)
          /\ inv' = Throw(p, "updateRef",
                          UpdateRefMessage(ConflictResponse).status,
                          UpdateRefMessage(ConflictResponse).body,
                          Append(inv[p].calls, Call("updateRef", "conflict")))
          /\ UNCHANGED refs
       \/ \E f \in UpdateRefFaults :
            /\ inv' = Throw(p, "updateRef",
                            UpdateRefMessage(f).status, UpdateRefMessage(f).body,
                            Append(inv[p].calls, Call("updateRef", "fault")))
            /\ UNCHANGED refs
    /\ UNCHANGED <<GITHUB_TOKEN, BRANCH_NAME, commits, trees, extPushed, issues,
                   prepareVars>>

\* Another writer (a push, or another server on the same branch) adds a
\* commit on top of the branch tip, once in a behaviour; the other
\* invocations are further writers.
ExternalPush ==
    /\ ~extPushed
    /\ extPushed' = TRUE
    /\ LET sha == ExtSha IN
       /\ trees' = (sha :> [base |-> commits[ref].tree, entries |-> <<>>,
                            by |-> ExtWriter]) @@ trees
       /\ commits' = (sha :> [parent |-> ref, tree |-> sha, by |-> ExtWriter])
                        @@ commits
       /\ refs' = [refs EXCEPT ![BRANCH_NAME] = sha]
    /\ inv' = NoteMove(inv, ExtWriter)
    /\ UNCHANGED <<GITHUB_TOKEN, BRANCH_NAME, issues, prepareVars>>

(***************************************************************************)
(* The prepare pipeline: run() of prepare.ts, one action per await.  The   *)
(* functions it calls are outside the model; each either returns (with the *)
(* values drawn here) or throws.                                           *)
(***************************************************************************)
RunStart == [NoRun EXCEPT !.pc = "setupGitHubToken"]

OldComment == [on |-> "other", edits |-> 0]

PrepareInit ==
    /\ context \in [isPR : BOOLEAN, containsTrigger : BOOLEAN]
    /\ run = RunStart
    /\ \E n \in 0..MaxOldComments : comments = [i \in 1..n |-> OldComment]
    /\ outputs = NoOutputs
    /\ GITHUB_TOKEN = TRUE
    /\ BRANCH_NAME = NoBranch
    /\ refs = RootRefs
    /\ commits = RootCommits
    /\ trees = RootTrees
    /\ extPushed = FALSE
    /\ inv = [p \in Procs |-> Idle]
    /\ issues = <<>>

\* the call of one stage is logged, the run moves on to pc
Step(stage, pc) == [run EXCEPT !.pc = pc, !.log = Append(@, stage)]

\* the call of one stage throws
Threw(stage, pc) == [Step(stage, pc) EXCEPT !.threw = @ \cup {stage}]

\* a catch that logs the failure and goes on to the hand-off
FailedGoesOn(stage) ==
    /\ run' = Threw(stage, "prepareMcpConfig")
    /\ UNCHANGED outputs

\* the catch of run(): core.setFailed and process.exit(1)
Failed(stage) ==
    /\ run' = Threw(stage, "exit")
    /\ outputs' = [outputs EXCEPT !.exit = "failed", !.setFailed = TRUE,
                                  !.failedAt = stage]

\* Step 1: Setup GitHub token
SetupGitHubToken ==
    /\ run.pc = "setupGitHubToken"
    /\ \/ run' = Step("setupGitHubToken", "parseGitHubContext")
          /\ UNCHANGED outputs
       \/ Failed("setupGitHubToken")
    /\ UNCHANGED <<context, comments, commitVars>>

\* Step 2: Parse GitHub context
ParseGitHubContext ==
    /\ run.pc = "parseGitHubContext"
    /\ \/ run' = Step("parseGitHubContext", "checkWritePermissions")
          /\ UNCHANGED outputs
       \/ Failed("parseGitHubContext")
    /\ UNCHANGED <<context, comments, commitVars>>

\* a gate that does not look at the answer
PermissionIgnored(hasWritePermissions) == TRUE

\* the test of the permission check's answer
PermissionGate(hasWritePermissions) == hasWritePermissions

\* Step 3: Check write permissions
CheckWritePermissions ==
    /\ run.pc = "checkWritePermissions"
    /\ \/ \E hasWritePermissions \in BOOLEAN :
            LET answer == IF hasWritePermissions THEN "granted" ELSE "denied" IN
            IF PermissionGate(hasWritePermissions)
            THEN /\ run' = [Step("checkWritePermissions", "checkTriggerAction")
                              EXCEPT !.permission = answer]
                 /\ UNCHANGED outputs
            ELSE \* throw new Error("Actor does not have write permissions ...")
                 /\ run' = [Step("checkWritePermissions", "exit")
                              EXCEPT !.permission = answer]
                 /\ outputs' = [outputs EXCEPT
                                    !.exit = "failed", !.setFailed = TRUE,
                                    !.failedAt = "checkWritePermissions"]
       \/ /\ run' = [Threw("checkWritePermissions", "exit")
                        EXCEPT !.permission = "error"]
          /\ outputs' = [outputs EXCEPT
                             !.exit = "failed", !.setFailed = TRUE,
                             !.failedAt = "checkWritePermissions"]
    /\ UNCHANGED <<context, comments, commitVars>>

\* step 4 without its return
NeverSkips(containsTrigger) == FALSE

\* the early return of step 4
SkipsRemainingSteps(containsTrigger) == ~containsTrigger

\* Step 4: Check trigger conditions
CheckTriggerAction ==
    /\ run.pc = "checkTriggerAction"
    /\ IF SkipsRemainingSteps(context.containsTrigger)
       THEN /\ run' = Step("checkTriggerAction", "exit")
            /\ outputs' = [outputs EXCEPT !.exit = "success"]
       ELSE /\ run' = Step("checkTriggerAction", "checkHumanActor")
            /\ UNCHANGED outputs
    /\ UNCHANGED <<context, comments, commitVars>>

\* Step 5: Check if actor is human
CheckHumanActor ==
    /\ run.pc = "checkHumanActor"
    /\ \/ run' = Step("checkHumanActor", "createInitialComment")
          /\ UNCHANGED outputs
       \/ Failed("checkHumanActor")
    /\ UNCHANGED <<context, comments, commitVars>>

\* the host creates a comment; its id is the next free one
NewCommentId == Len(comments) + 1

\* Step 6: Create initial tracking comment
CreateInitialComment ==
    /\ run.pc = "createInitialComment"
    /\ \/ /\ comments' = Append(comments, [on |-> "trigger", edits |-> 0])
          /\ run' = [Step("createInitialComment", "fetchGitHubData")
                        EXCEPT !.commentId = NewCommentId]
          /\ UNCHANGED outputs
       \/ Failed("createInitialComment") /\ UNCHANGED comments
    /\ UNCHANGED <<context, commitVars>>

\* Step 7: Fetch GitHub data
FetchGitHubData ==
    /\ run.pc = "fetchGitHubData"
    /\ \/ run' = Step("fetchGitHubData", "setupBranch")
          /\ UNCHANGED outputs
       \/ Failed("fetchGitHubData")
    /\ UNCHANGED <<context, comments, commitVars>>

\* step 9 without its test
LooksForPrAlways(claudeBranch, isPR) == TRUE

\* the test that guards the pull-request lookup of step 9
LooksForPr(claudeBranch, isPR) == claudeBranch # NoBranch /\ ~isPR

\* step 10 with its comparison of the two ids inverted
UpdatesWhenRedirected(claudeBranch, finalCommentId, commentId) ==
    claudeBranch # NoBranch /\ finalCommentId # commentId

\* the test that guards step 10
UpdatesOriginal(claudeBranch, finalCommentId, commentId) ==
    claudeBranch # NoBranch /\ finalCommentId = commentId

\* step 10 without its test
AlwaysUpdates(claudeBranch, finalCommentId, commentId) == "updateTrackingComment"

\* where the run awaits next once step 9 is over
AfterRedirect(claudeBranch, finalCommentId, commentId) ==
    IF UpdatesOriginal(claudeBranch, finalCommentId, commentId)
    THEN "updateTrackingComment"
    ELSE "createPrompt"

\* Step 8: Setup branch; step 9 starts with finalCommentId = commentId
SetupBranch ==
    /\ run.pc = "setupBranch"
    /\ \/ LET claudeBranch == ClaudeBranchFor(context.isPR) IN
          /\ run' = [Step("setupBranch",
                          IF LooksForPr(claudeBranch, context.isPR)
                          THEN "pulls.list"
                          ELSE AfterRedirect(claudeBranch, run.commentId,
                                             run.commentId))
                        EXCEPT !.claudeBranch = claudeBranch,
                               !.currentBranch =
                                    CurrentBranchFor(context.isPR),
                               !.finalCommentId = run.commentId]
          /\ UNCHANGED outputs
       \/ Failed("setupBranch")
    /\ UNCHANGED <<context, comments, commitVars>>

\* the test of the lookup's answer
PrExists(prsLength) == prsLength > 0

\* step 9 without its try block
CaughtNowhere(stage) == FALSE

\* the calls inside the try block of step 9, whose catch logs and goes on
CaughtInStep9(stage) == stage \in {"pulls.list", "issues.createComment"}

\* Step 9: the lookup of open pull requests whose head is the new branch
PullsList ==
    /\ run.pc = "pulls.list"
    /\ \/ \E n \in 0..MaxPrs :
          /\ run' = [Step("pulls.list",
                           IF PrExists(n)
                           THEN "issues.createComment"
                           ELSE AfterRedirect(run.claudeBranch,
                                              run.finalCommentId, run.commentId))
                        EXCEPT !.prs = n]
          /\ UNCHANGED outputs
       \/ IF CaughtInStep9("pulls.list")
          THEN /\ run' = Threw("pulls.list",
                               AfterRedirect(run.claudeBranch, run.finalCommentId,
                                             run.commentId))
               /\ UNCHANGED outputs
          ELSE Failed("pulls.list")
    /\ UNCHANGED <<context, comments, commitVars>>

\* Step 9: the new comment on the pull request found
IssuesCreateComment ==
    /\ run.pc = "issues.createComment"
    /\ \/ /\ comments' = Append(comments, [on |-> "pr", edits |-> 0])
          /\ run' = [Step("issues.createComment",
                          AfterRedirect(run.claudeBranch, NewCommentId,
                                        run.commentId))
                        EXCEPT !.finalCommentId = NewCommentId]
          /\ outputs' = [outputs EXCEPT !.CLAUDE_COMMENT_ID = NewCommentId]
       \/ /\ IF CaughtInStep9("issues.createComment")
             THEN /\ run' = Threw("issues.createComment",
                                  AfterRedirect(run.claudeBranch,
                                                run.finalCommentId, run.commentId))
                  /\ UNCHANGED outputs
             ELSE Failed("issues.createComment")
          /\ UNCHANGED comments
    /\ UNCHANGED <<context, commitVars>>

\* Step 10: Update initial comment with branch link
UpdateTrackingComment ==
    /\ run.pc = "updateTrackingComment"
    /\ \/ /\ comments' = [comments EXCEPT ![run.commentId].edits = @ + 1]
          /\ run' = Step("updateTrackingComment", "createPrompt")
          /\ UNCHANGED outputs
       \/ Failed("updateTrackingComment") /\ UNCHANGED comments
    /\ UNCHANGED <<context, commitVars>>

\* Step 11: Create prompt file, with finalCommentId
CreatePrompt ==
    /\ run.pc = "createPrompt"
    /\ \/ /\ run' = Step("createPrompt", "prepareMcpConfig")
          /\ outputs' = [outputs EXCEPT !.promptCommentId = run.finalCommentId]
       \/ Failed("createPrompt")
    /\ UNCHANGED <<context, comments, commitVars>>

\* Step 11: Get MCP configuration and set the output mcp_config
PrepareMcpConfig ==
    /\ run.pc = "prepareMcpConfig"
    /\ run' = Step("prepareMcpConfig", "exit")
    /\ outputs' = [outputs EXCEPT
                        !.mcp_config = TRUE,
                        !.BRANCH_NAME = McpConfigEnv(run.currentBranch).BRANCH_NAME,
                        !.exit = "success"]
    /\ UNCHANGED <<context, comments, commitVars>>

PrepareNext ==
    \/ SetupGitHubToken
    \/ ParseGitHubContext
    \/ CheckWritePermissions
    \/ CheckTriggerAction
    \/ CheckHumanActor
    \/ CreateInitialComment
    \/ FetchGitHubData
    \/ SetupBranch
    \/ PullsList
    \/ IssuesCreateComment
    \/ UpdateTrackingComment
    \/ CreatePrompt
    \/ PrepareMcpConfig

PrepareSpec == PrepareInit /\ [][PrepareNext]_vars

CommitNext ==
    \/ \E p \in Procs :
        \/ Invoke(p)
        \/ GetRef(p)
        \/ GetCommit(p)
        \/ ReadFiles(p)
        \/ CreateTree(p)
        \/ CreateCommit(p)
        \/ UpdateRef(p)
    \/ ExternalPush

CommitSpec == CommitInit /\ [][CommitNext]_vars

(***************************************************************************)
(* The six tools of the server, called by one client that awaits each      *)
(* result before its next call (specification ToolSpec).                   *)
(***************************************************************************)
\* the comment the client's update_issue_comment names
TrackingComment == [on |-> "trigger", edits |-> 0]

ToolInit ==
    /\ GITHUB_TOKEN \in BOOLEAN
    /\ BRANCH_NAME \in HandedOffBranches
    /\ refs = RootRefs
    /\ commits = RootCommits
    /\ trees = RootTrees
    /\ extPushed = FALSE
    /\ inv = [p \in Procs |-> Idle]
    /\ issues = <<>>
    /\ context = NoContext
    /\ run = NoRun
    /\ comments = <<TrackingComment>>
    /\ outputs = NoOutputs

\* A handler of any of the six tools starts, the earlier calls having returned.
CallTool(p) ==
    /\ inv[p].pc = "idle"
    /\ \A q \in Procs : q < p => inv[q].pc = "done"
    /\ \E r \in ToolRequests : inv' = HandlerStart(p, r)
    /\ UNCHANGED <<GITHUB_TOKEN, BRANCH_NAME, refs, commits, trees, extPushed,
                   issues, prepareVars>>

\* what the host does on the request of a one-call tool when it accepts it
HostApplies(tool, commentId) ==
    /\ issues' = IF tool = "create_issue" THEN Append(issues, "issue")
                 ELSE IF tool = "create_pull_request" THEN Append(issues, "pull")
                 ELSE issues
    /\ comments' = IF tool = "update_issue_comment"
                   THEN [comments EXCEPT ![commentId].edits = @ + 1]
                   ELSE comments

\* the host can accept the request
HostCanApply(tool, commentId) ==
    tool = "update_issue_comment" => commentId \in DOMAIN comments

\* The single fetch of create_issue, update_issue_comment, create_pull_request
\* and list_issues, and the return of its result.
Fetch(p) ==
    /\ inv[p].pc = "fetch"
    /\ \/ /\ HostCanApply(inv[p].tool, inv[p].commentId)
          /\ HostApplies(inv[p].tool, inv[p].commentId)
          /\ inv' = [inv EXCEPT
                        ![p].pc = "done",
                        ![p].result = SuccessResult(NoSha, NoSha, <<>>),
                        ![p].calls = Append(@, Call(inv[p].tool, "ok"))]
       \/ \E f \in HostFaults :
            /\ inv' = Throw(p, inv[p].tool, f.status, f.body,
                            Append(inv[p].calls, Call(inv[p].tool, "fault")))
            /\ UNCHANGED <<issues, comments>>
    /\ UNCHANGED <<GITHUB_TOKEN, BRANCH_NAME, refs, commits, trees, extPushed,
                   context, run, outputs>>

ToolNext ==
    \/ \E p \in Procs :
        \/ CallTool(p)
        \/ Fetch(p)
        \/ GetRef(p)
        \/ GetCommit(p)
        \/ ReadFiles(p)
        \/ CreateTree(p)
        \/ CreateCommit(p)
        \/ UpdateRef(p)
    \/ ExternalPush

ToolSpec == ToolInit /\ [][ToolNext]_vars

(***************************************************************************)
(* Properties of the commit protocol (specification CommitSpec).           *)
(***************************************************************************)
CallsOf(p, name) == { i \in DOMAIN inv[p].calls : inv[p].calls[i].call = name }

\* the commit and tree objects the host holds for invocation p
CommitsBy(p) == { c \in DOMAIN commits : commits[c].by = Writer(p) }
TreesBy(p) == { t \in DOMAIN trees : trees[t].by = Writer(p) }

\* every local file the request refers to exists (delete_files reads none)
LocalFilesExist(r) ==
    r.tool = "commit_files" =>
        \A i \in DOMAIN r.files :
            FullPath(ProcessFilePath(r.files[i])) \in LocalFiles

\* no host call of the invocation was answered with a failure
HostCallsSucceed(r) == \A i \in DOMAIN r.calls : r.calls[i].outcome = "ok"

\* no host call failed for a reason other than the ref having moved
NoHostFault(r) == \A i \in DOMAIN r.calls : r.calls[i].outcome # "fault"

\* the request passes the checks made before the first host call
PassesChecks(r) ==
    /\ GITHUB_TOKEN
    /\ r.tool = "delete_files" => ~AnyPathRejected(r.files)

\* invocation p has returned an error payload whose message is that of step
ReturnedError(p, step) ==
    /\ inv[p].pc = "done"
    /\ inv[p].result.kind = "error"
    /\ inv[p].result.step = step

\* invocation p returns in this step
Returns(p) == inv[p].pc # "done" /\ inv'[p].pc = "done"

\* what C1 promises of invocation p, in the state where it has returned
OneCommitOnTip(p) ==
    /\ inv'[p].result.kind = "success"
    /\ Cardinality(CommitsBy(p)') = 1
    /\ Cardinality(CallsOf(p, "createCommit")') = 1
    /\ inv'[p].result.commitSha \in CommitsBy(p)'
    /\ commits'[inv'[p].result.commitSha].parent = inv'[p].baseSha
    /\ inv'[p].baseSha \in DOMAIN commits
    /\ ref' = inv'[p].result.commitSha

C2_MovedRefRejects ==
    [][\A p \in Procs :
        (inv[p].pc = "updateRef" /\ Returns(p) /\ inv[p].movedBy # {})
        => /\ ref' = ref
           /\ ref # inv[p].newCommitSha
           /\ commits[ref].by \in inv[p].movedBy
           /\ inv'[p].result.kind = "error"]_vars

\* an invocation has returned the rejection of its update, the ref being on
\* the commit of the writer that moved it
C2_Witness ==
    \E p \in Procs :
        /\ inv[p].pc = "done"
        /\ inv[p].movedBy # {}
        /\ inv[p].result.kind = "error"
        /\ inv[p].result.step = "updateRef"
        /\ inv[p].result.status = ConflictResponse.status
        /\ commits[ref].by \in inv[p].movedBy
        /\ inv[p].newCommitSha \in DOMAIN commits

\* both have read the same tip, both have had their step 6 answered by the
\* host's fast-forward check, and no third writer has moved the ref meanwhile
Raced(p, q) ==
    /\ p # q
    /\ inv[p].pc = "done" /\ inv[q].pc = "done"
    /\ CallsOf(p, "updateRef") # {} /\ CallsOf(q, "updateRef") # {}
    /\ NoHostFault(inv[p]) /\ NoHostFault(inv[q])
    /\ inv[p].baseSha = inv[q].baseSha
    /\ inv[p].movedBy \subseteq {Writer(q)}
    /\ inv[q].movedBy \subseteq {Writer(p)}

\* C3: of two invocations that race on the same tip, exactly one returns
\* success and the other an error; two invocations that have read the same
\* tip never both succeed.
C3_ExactlyOneWins ==
    \A p, q \in Procs :
        /\ (/\ p # q
            /\ inv[p].baseSha = inv[q].baseSha
            /\ inv[p].baseSha # NoSha)
           => ~(inv[p].result.kind = "success" /\ inv[q].result.kind = "success")
        /\ Raced(p, q)
           => \/ inv[p].result.kind = "success" /\ inv[q].result.kind = "error"
              \/ inv[p].result.kind = "error" /\ inv[q].result.kind = "success"

\* a commit_files and a delete_files have raced: one has won, the other has
\* had its update rejected
C3_Witness ==
    \E p, q \in Procs :
        /\ Raced(p, q)
        /\ inv[p].tool # inv[q].tool
        /\ inv[p].result.kind = "success"
        /\ inv[q].result.kind = "error" /\ inv[q].result.step = "updateRef"

\* a file of the request does not exist locally
SomeFileMissing(r) ==
    \E i \in DOMAIN r.files :
        FullPath(ProcessFilePath(r.files[i])) \notin LocalFiles

\* C4: a commit_files request naming a file that does not exist locally
\* submits no tree, creates no commit, never updates the ref, and returns an
\* error, also when the other files of the request exist.
C4_MissingFileFailsBatch ==
    \A p \in Procs :
        (inv[p].tool = "commit_files" /\ SomeFileMissing(inv[p]))
        => /\ TreesBy(p) = {} /\ CallsOf(p, "createTree") = {}
           /\ CommitsBy(p) = {} /\ CallsOf(p, "createCommit") = {}
           /\ CallsOf(p, "updateRef") = {}
           /\ commits[ref].by # Writer(p)
           /\ inv[p].result.kind # "success"
           /\ inv[p].pc = "done" => inv[p].result.kind = "error"

\* a request with one existing and one missing file has failed at the read
C4_Witness ==
    \E p \in Procs :
        /\ inv[p].tool = "commit_files"
        /\ SomeFileMissing(inv[p])
        /\ LocalFilesExist([inv[p] EXCEPT !.files = <<inv[p].files[1]>>])
        /\ inv[p].pc = "done"
        /\ inv[p].result.kind = "error"
        /\ inv[p].result.step = "readFile"
        /\ Len(inv[p].calls) = 2

\* the host calls of the commit protocol, in the order of the code
ProtocolSteps == <<"getRef", "getCommit", "createTree", "createCommit", "updateRef">>

\* the calls of invocation p so far are the first steps of the protocol,
\* each once, and none follows a failed one
InProtocolOrder(p) ==
    LET calls == inv[p].calls IN
    /\ Len(calls) <= Len(ProtocolSteps)
    /\ \A i \in DOMAIN calls :
        /\ calls[i].call = ProtocolSteps[i]
        /\ i < Len(calls) => calls[i].outcome = "ok"

\* a failed call has ended the invocation with the error of that call
FailureEnds(p) ==
    LET calls == inv[p].calls IN
    (calls # <<>> /\ calls[Len(calls)].outcome # "ok")
    => ReturnedError(p, calls[Len(calls)].call)

\* C14: within one invocation of commit_files or delete_files each step of
\* the protocol is issued at most once and in the order of the protocol; the
\* first failing step ends the invocation with one error result, after which
\* the invocation issues no call and its result does not change.
C14_NoRetry ==
    /\ [](\A p \in Procs : InProtocolOrder(p) /\ FailureEnds(p))
    /\ [][\A p \in Procs :
            inv[p].pc = "done"
            => /\ inv'[p].result = inv[p].result
               /\ inv'[p].calls = inv[p].calls
               /\ inv'[p].pc = "done"]_vars

\* one invocation has ended at a failed commit creation after three calls
\* that succeeded, another at the rejected ref update after four
C14_Witness ==
    \E p, q \in Procs :
        /\ ReturnedError(p, "createCommit")
        /\ Len(inv[p].calls) = 4
        /\ ReturnedError(q, "updateRef")
        /\ Len(inv[q].calls) = 5
        /\ inv[q].calls[5].outcome = "conflict"

\* the commits on the branch: the tip and its ancestors
OnBranch == { c \in DOMAIN commits : IsAncestor(c, ref) }

\* nothing invocation p created is on the branch
Dangling(p) ==
    /\ CommitsBy(p) \cap OnBranch = {}
    /\ \A c \in OnBranch : commits[c].tree \notin TreesBy(p)

\* C20: an invocation that returns an error has not changed the branch ref,
\* whichever step failed: the ref moves only in the step in which an
\* invocation returns success (to that invocation's commit) or by another
\* writer's push, and the tree and commit objects created by an invocation
\* that returned an error are never reachable from the ref.
C20_ErrorLeavesRef ==
    /\ [](\A p \in Procs :
            inv[p].result.kind = "error"
            => /\ Dangling(p)
               /\ ref # inv[p].newCommitSha)
    /\ [][\A p \in Procs :
            (Returns(p) /\ inv'[p].result.kind = "error") => ref' = ref]_vars
    /\ [][ref' # ref
          => \/ \E q \in Procs :
                    /\ Returns(q)
                    /\ inv'[q].result.kind = "success"
                    /\ ref' = inv'[q].result.commitSha
             \/ commits'[ref'].by = ExtWriter]_vars

\* an invocation has had its ref update rejected after it created its tree
\* and its commit: the commit is left off the branch, which has moved on
C20_Witness ==
    \E p \in Procs :
        /\ ReturnedError(p, "updateRef")
        /\ CommitsBy(p) = {inv[p].newCommitSha}
        /\ TreesBy(p) = {inv[p].treeSha}
        /\ Dangling(p)
        /\ ref # inv[p].baseSha

(***************************************************************************)
(* Properties of the prepare pipeline (specification PrepareSpec).         *)
(***************************************************************************)
Logged(stage) == \E i \in DOMAIN run.log : run.log[i] = stage

TimesLogged(stage) == Cardinality({ i \in DOMAIN run.log : run.log[i] = stage })

\* the comments the run has created, and those it created on a pull request
NewComments == { i \in DOMAIN comments : comments[i].on # "other" }
PrComments == { i \in DOMAIN comments : comments[i].on = "pr" }

\* edits made to the initial comment
OriginalEdits == IF run.commentId = NoId THEN 0 ELSE comments[run.commentId].edits

\* the stages after the trigger evaluation
AfterTrigger ==
    {"checkHumanActor", "createInitialComment", "fetchGitHubData",
     "setupBranch", "pulls.list", "issues.createComment",
     "updateTrackingComment", "createPrompt", "prepareMcpConfig"}

\* nothing after the trigger evaluation has been done
NothingDownstream ==
    /\ \A stage \in AfterTrigger : ~Logged(stage)
    /\ NewComments = {}
    /\ run.claudeBranch = NoBranch
    /\ ~outputs.mcp_config
    /\ outputs.promptCommentId = NoId

\* the final comment id has been handed to the prompt construction
HandedOff == outputs.promptCommentId # NoId

\* the run has obtained its credential and parsed the event
EventParsed == Logged("parseGitHubContext") /\ run.threw = {}

\* C5, as stated: whenever the trigger phrase is absent, the run posts no
\* comment, touches no branch, runs no downstream step and ends successfully
\* (read for the runs that have obtained their credential and parsed the
\* event, and in which no call has thrown).
C5_AsStated ==
    (~context.containsTrigger /\ EventParsed)
    => /\ NothingDownstream
       /\ run.pc = "exit" => outputs.exit = "success" /\ ~outputs.setFailed

\* C5, amended: whenever the trigger phrase is absent, the run posts no
\* comment, touches no branch and runs no downstream step; and once it has
\* reached the trigger evaluation (the credential, the context parse and the
\* write-permission check having succeeded) it ends there, successfully.
C5_NoTriggerNoAction ==
    ~context.containsTrigger
    => /\ NothingDownstream
       /\ Logged("checkTriggerAction")
          => /\ run.pc = "exit"
             /\ run.log[Len(run.log)] = "checkTriggerAction"
             /\ outputs.exit = "success"
             /\ ~outputs.setFailed
       /\ outputs.exit = "success" => Logged("checkTriggerAction")

\* a run without the trigger phrase has ended successfully at step 4
C5_Witness ==
    /\ ~context.containsTrigger
    /\ Logged("checkTriggerAction")
    /\ run.pc = "exit"
    /\ outputs.exit = "success"

\* the issue event got a new branch
IssueWithBranch == ~context.isPR /\ run.claudeBranch # NoBranch

\* C6: for an issue event with a new branch whose lookup finds an open pull
\* request, the comment id handed off is not the initial one but that of a
\* new comment on the pull request, and the initial comment is not edited.
C6_RedirectedToPr ==
    (IssueWithBranch /\ run.prs >= 1 /\ HandedOff)
    => /\ outputs.promptCommentId # run.commentId
       /\ outputs.promptCommentId \in PrComments
       /\ OriginalEdits = 0

\* C7: for an issue event with a new branch whose lookup finds no open pull
\* request, no second comment is created, the final comment id is the initial
\* one, and the initial comment is edited once, before the hand-off.
C7_LinkedOnce ==
    (IssueWithBranch /\ run.prs = 0)
    => /\ PrComments = {}
       /\ Cardinality(NewComments) = 1
       /\ ~Logged("issues.createComment")
       /\ run.finalCommentId = run.commentId
       /\ OriginalEdits <= 1
       /\ TimesLogged("updateTrackingComment") <= 1
       /\ HandedOff => OriginalEdits = 1 /\ outputs.promptCommentId = run.commentId
       /\ outputs.CLAUDE_COMMENT_ID = NoId

\* the lookup found nothing and the run has handed off the initial comment,
\* edited once
C7_Witness ==
    /\ IssueWithBranch
    /\ run.prs = 0
    /\ outputs.mcp_config
    /\ OriginalEdits = 1
    /\ outputs.promptCommentId = run.commentId

\* C8: when the lookup of open pull requests fails, the run does not fail at
\* it: no second comment is created, the final comment id stays the initial
\* one, the next call is the edit of the initial comment, and a run that
\* hands off does so with the initial comment, edited once.
C8_LookupFailureDegrades ==
    "pulls.list" \in run.threw
    => /\ outputs.failedAt # "pulls.list"
       /\ PrComments = {}
       /\ ~Logged("issues.createComment")
       /\ run.finalCommentId = run.commentId
       /\ run.pc = "updateTrackingComment" \/ Logged("updateTrackingComment")
       /\ outputs.exit = "failed"
          => /\ outputs.failedAt \in {"updateTrackingComment", "createPrompt"}
             /\ outputs.failedAt \in run.threw
       /\ HandedOff => OriginalEdits = 1 /\ outputs.promptCommentId = run.commentId
       /\ outputs.exit = "success" => outputs.mcp_config /\ HandedOff

\* the lookup has failed and the run has reached the hand-off
C8_Witness ==
    /\ "pulls.list" \in run.threw
    /\ outputs.exit = "success"
    /\ outputs.mcp_config
    /\ OriginalEdits = 1

\* the calls that create or edit a tracking comment
CommentCalls ==
    {"createInitialComment", "issues.createComment", "updateTrackingComment"}

\* C9: every failure of a call that creates or edits a tracking comment ends
\* the run as a failure, before the hand-off.
C9_CommentFailuresFatal ==
    \A stage \in CommentCalls :
        stage \in run.threw
        => /\ run.pc = "exit"
           /\ outputs.exit = "failed"
           /\ outputs.setFailed
           /\ ~HandedOff
           /\ ~outputs.mcp_config

\* C10: when the permission check throws or answers that the actor lacks
\* write permission, the run ends as a failure, and neither the trigger
\* evaluation nor any later stage is performed.
C10_PermissionGateFailsClosed ==
    run.permission \in {"denied", "error"}
    => /\ run.pc = "exit"
       /\ outputs.exit = "failed"
       /\ outputs.setFailed
       /\ outputs.failedAt = "checkWritePermissions"
       /\ ~Logged("checkTriggerAction")
       /\ NothingDownstream

\* the actor lacks write permission, the event has no trigger phrase, and the
\* run has ended as a failure
C10_Witness ==
    /\ run.permission = "denied"
    /\ ~context.containsTrigger
    /\ outputs.exit = "failed"
    /\ outputs.setFailed

\* the calls of run() in the order of the stages: credential, context parse,
\* permission check, trigger match, human-actor check, initial comment, data
\* fetch, branch resolution, redirect/link decision (three calls), hand-off
\* (two calls)
StageOrder ==
    <<"setupGitHubToken", "parseGitHubContext", "checkWritePermissions",
      "checkTriggerAction", "checkHumanActor", "createInitialComment",
      "fetchGitHubData", "setupBranch",
      "pulls.list", "issues.createComment", "updateTrackingComment",
      "createPrompt", "prepareMcpConfig">>

Position(stage) == CHOOSE i \in DOMAIN StageOrder : StageOrder[i] = stage

\* the calls every run makes, one after the other, up to the branch resolution
UpToBranch == Position("setupBranch")

\* the calls made so far follow the order of the stages, none skipped up to
\* the branch resolution and none made twice
InStageOrder ==
    /\ \A i, j \in DOMAIN run.log :
            i < j => Position(run.log[i]) < Position(run.log[j])
    /\ \A i \in DOMAIN run.log : i <= UpToBranch => run.log[i] = StageOrder[i]

\* a throw of the stage reaches the catch of run(): the stage fails fatally
Fatal(stage) == ~CaughtInStep9(stage)

Redirected == PrComments # {}
Linked == OriginalEdits > 0

\* C16: no run both creates a second comment (on a pull request) and edits
\* the original comment; once the second comment exists the edit of the
\* original is not even attempted, and each transition happens at most once.
C16_RedirectedOrLinked ==
    /\ ~(Redirected /\ Linked)
    /\ Redirected => ~Logged("updateTrackingComment")
    /\ Linked => PrComments = {}
    /\ Cardinality(PrComments) <= 1
    /\ OriginalEdits <= 1

\* a run has created the comment on the pull request and reached the end
\* with the original comment unedited
C16_Witness ==
    /\ Redirected
    /\ ~Linked
    /\ outputs.mcp_config
    /\ outputs.promptCommentId \in PrComments

\* the branch resolution has returned without a new branch, for a
\* pull-request event
PrWithoutBranch ==
    /\ context.isPR
    /\ Logged("setupBranch") /\ "setupBranch" \notin run.threw
    /\ run.claudeBranch = NoBranch

\* C17: for a pull-request event for which the branch resolution gave no new
\* branch, the run makes no pull-request lookup, creates no second comment and
\* does not edit the initial comment; the comment id it hands off is the id
\* of the initial comment.
C17_PrEventLeavesComment ==
    PrWithoutBranch
    => /\ ~Logged("pulls.list")
       /\ ~Logged("issues.createComment")
       /\ ~Logged("updateTrackingComment")
       /\ run.prs = NoId
       /\ PrComments = {}
       /\ Cardinality(NewComments) = 1
       /\ OriginalEdits = 0
       /\ run.finalCommentId = run.commentId
       /\ outputs.CLAUDE_COMMENT_ID = NoId
       /\ HandedOff => outputs.promptCommentId = run.commentId

\* a run for a pull-request event has handed off the initial comment, unedited
C17_Witness ==
    /\ PrWithoutBranch
    /\ outputs.mcp_config
    /\ outputs.promptCommentId = run.commentId
    /\ run.commentId # NoId
    /\ OriginalEdits = 0

(***************************************************************************)
(* Properties of the six tools (specification ToolSpec).                   *)
(***************************************************************************)
Tools ==
    CommitTools \cup
    {"create_issue", "update_issue_comment", "create_pull_request", "list_issues"}

\* the handler of p is not over and has a next step
HasNextStep(p) ==
    ENABLED (\/ Fetch(p) \/ GetRef(p) \/ GetCommit(p) \/ ReadFiles(p)
             \/ CreateTree(p) \/ CreateCommit(p) \/ UpdateRef(p))

\* C11: every invocation of each of the six tools ends by returning either a
\* success payload or an error payload with a message; whichever step fails
\* (credential, path, local read, host answer), the handler goes on to its
\* return, and a failed step always gives the error payload.
C11_AlwaysAPayload ==
    \A p \in Procs :
        /\ inv[p].pc = "done"
           => /\ inv[p].tool \in Tools
              /\ inv[p].result.kind \in {"success", "error"}
              /\ inv[p].result.kind = "error" => inv[p].result.step # "none"
              /\ ~HostCallsSucceed(inv[p]) => inv[p].result.kind = "error"
        /\ inv[p].pc \notin {"idle", "done"}
           => inv[p].result = NoResult /\ HasNextStep(p)

\* a one-call tool has returned the host's failure and delete_files the
\* rejection of a path, each as an error payload
C11_Witness ==
    \E p, q \in Procs :
        /\ inv[p].tool = "list_issues"
        /\ ReturnedError(p, "list_issues")
        /\ inv[q].tool = "delete_files"
        /\ ReturnedError(q, "path")

\* the steps that are calls of the host
HostSteps ==
    {"getRef", "getCommit", "createTree", "createCommit", "updateRef",
     "create_issue", "update_issue_comment", "create_pull_request",
     "list_issues"}

\* the non-2xx answers of the host
NonOkResponses == HostFaults \cup UpdateRefFaults \cup {ConflictResponse}

\* C12: the error message returned for a host call that was answered with a
\* non-2xx response carries both the status code and the body text of that
\* response, for every host call of every tool (the ref read of step 1 and
\* the commit read of step 2 included).
C12_StatusAndBody ==
    \A p \in Procs :
        (inv[p].result.kind = "error" /\ inv[p].result.step \in HostSteps)
        => [status |-> inv[p].result.status, body |-> inv[p].result.body]
               \in NonOkResponses

\* the requested path without its first character when that is a separator
WithoutOneSeparator(filePath) ==
    IF filePath # <<>> /\ Head(filePath) = "/" THEN Tail(filePath) ELSE filePath

EntryPaths(entries) == [i \in DOMAIN entries |-> entries[i].path]

\* the handler of p has gone past its path processing
PathsProcessed(p) ==
    inv[p].pc \in InFlight \cup {"getRef"} \/ inv[p].calls # <<>>

\* C13: in commit_files every requested path that begins with a separator
\* loses exactly one leading separator and every other path is unchanged;
\* the paths so obtained are the paths of the tree entries submitted to the
\* host and the paths reported in the result.
C13_OneSeparatorStripped ==
    \A p \in Procs :
        inv[p].tool = "commit_files"
        => LET expected ==
                [i \in DOMAIN inv[p].files |->
                    WithoutOneSeparator(inv[p].files[i])] IN
           /\ PathsProcessed(p) => inv[p].processedFiles = expected
           /\ inv[p].treeEntries # <<>>
              => EntryPaths(inv[p].treeEntries) = expected
           /\ \A t \in TreesBy(p) : EntryPaths(trees[t].entries) = expected
           /\ inv[p].result.kind = "success"
              => /\ inv[p].result.paths = expected
                 /\ TreesBy(p) = {inv[p].result.treeSha}

\* commit_files(["//x"]) has returned success: one separator was removed
C13_Witness ==
    \E p \in Procs :
        /\ inv[p].tool = "commit_files"
        /\ inv[p].files = << <<"/", "/", "x">> >>
        /\ inv[p].result.kind = "success"
        /\ inv[p].result.paths = << <<"/", "x">> >>
        /\ EntryPaths(trees[inv[p].result.treeSha].entries) = << <<"/", "x">> >>

\* C18: delete_files mirrors commit_files: for a list of requested paths it
\* starts the same protocol with the ref read (whether or not a path begins
\* with a separator), issues its host calls in the same order, and submits
\* tree entries whose paths are those commit_files would submit for the same
\* list, each with a null content reference.
C18_DeleteMirrorsCommit ==
    \A p \in Procs :
        (inv[p].tool = "delete_files" /\ GITHUB_TOKEN)
        => /\ inv[p].pc = "getRef" \/ CallsOf(p, "getRef") # {}
           /\ InProtocolOrder(p)
           /\ inv[p].processedFiles = ProcessFiles(inv[p].files)
           /\ \A t \in TreesBy(p) :
                /\ EntryPaths(trees[t].entries) = ProcessFiles(inv[p].files)
                /\ \A i \in DOMAIN trees[t].entries :
                        trees[t].entries[i].sha = "null"

RootRelative(path) == ~StartsWith(path, Sep)

\* C19: every tree entry path that commit_files or delete_files submits to
\* the host is relative to the repository root, that is, does not begin with
\* a separator, whatever the requested paths are (paths beginning with more
\* than one separator included).
C19_EntriesRootRelative ==
    /\ \A t \in DOMAIN trees :
            \A i \in DOMAIN trees[t].entries :
                RootRelative(trees[t].entries[i].path)
    /\ \A p \in Procs :
            CallsOf(p, "createTree") # {}
            => \A i \in DOMAIN inv[p].treeEntries :
                    RootRelative(inv[p].treeEntries[i].path)

\* invocation p of commit_files or delete_files has returned success
Succeeded(p) ==
    /\ inv[p].tool \in CommitTools
    /\ inv[p].pc = "done"
    /\ inv[p].result.kind = "success"

\* the commit the last successful invocation before q left, the root commit
\* when there is none
PreviousCommit(q) ==
    LET earlier == { p \in Procs : p < q /\ Succeeded(p) } IN
    IF earlier = {} THEN RootSha
    ELSE inv[CHOOSE p \in earlier : \A o \in earlier : o <= p].result.commitSha

\* C21: the parent of the commit an invocation creates and the base of the
\* tree it submits come from the ref value that same invocation read in its
\* step 1 (the value the ref had at that read, kept until the invocation
\* returns); so, with no other writer, the successful invocations of one
\* server form a chain in which each commit's parent is the commit of the
\* successful invocation before it.
C21_BaseFromOwnRead ==
    /\ [](\A p \in Procs :
            /\ \A c \in CommitsBy(p) :
                    commits[c].parent = inv[p].baseSha /\ inv[p].baseSha # NoSha
            /\ \A t \in TreesBy(p) :
                    /\ trees[t].base = inv[p].baseTreeSha
                    /\ trees[t].base = commits[inv[p].baseSha].tree
            /\ inv[p].pc \in {"idle", "getRef"} => inv[p].baseSha = NoSha)
    /\ [][\A p \in Procs :
            /\ (inv[p].pc = "getRef" /\ inv'[p].pc = "getCommit")
               => inv'[p].baseSha = ref
            /\ inv[p].pc \in InFlight => inv'[p].baseSha = inv[p].baseSha]_vars
    /\ [](~extPushed
          => \A q \in Procs :
                Succeeded(q)
                => commits[inv[q].result.commitSha].parent = PreviousCommit(q))

\* with no other writer, every invocation has succeeded, the last one on top
\* of the commit of the one before it
C21_Witness ==
    /\ ~extPushed
    /\ \A p \in Procs : Succeeded(p)
    /\ \E p, q \in Procs :
        /\ q = p + 1
        /\ commits[inv[q].result.commitSha].parent = inv[p].result.commitSha
        /\ trees[inv[q].result.treeSha].base = inv[p].result.treeSha

\* the last host call of invocation p was the ref update the host rejected
\* because the ref had moved
EndedInConflict(p) ==
    /\ inv[p].calls # <<>>
    /\ inv[p].calls[Len(inv[p].calls)].outcome = "conflict"

\* what the caller gets of a failure: the message, made of the text of the
\* failed step and of what the handler put into it
Message(r) == <<r.step, r.status, r.body>>

\* C22: the error returned for a ref update rejected because the ref moved
\* differs from the error returned for every other failure of the protocol:
\* a failure of another step, and a failure of the ref update itself for
\* another reason (not found, or rejected by the host with the same status).
C22_ConflictDistinct ==
    \A p, q \in Procs :
        (/\ EndedInConflict(p)
         /\ inv[q].result.kind = "error"
         /\ ~EndedInConflict(q))
        => /\ ReturnedError(p, "updateRef")
           /\ Message(inv[p].result) # Message(inv[q].result)

\* one invocation has returned the conflict, another the host's refusal of
\* its ref update with the same status for another reason
C22_Witness ==
    \E p, q \in Procs :
        /\ EndedInConflict(p)
        /\ ReturnedError(q, "updateRef")
        /\ ~EndedInConflict(q)
        /\ inv[q].result.status = inv[p].result.status
        /\ inv[q].result.body # inv[p].result.body

\* the branches the pipeline can resolve as currentBranch
ResolvedBranches == {CurrentBranchFor(isPR) : isPR \in BOOLEAN}

\* the refs of the host other than the one the server was started for
OtherBranches == Branches \ {BRANCH_NAME}

\* C23: commit_files and delete_files read and update only the ref of the
\* branch fixed in the server's environment at start-up, which is the
\* currentBranch the pipeline resolved: the environment never changes, every
\* handler's requests name that branch, a ref read returns that ref, and no
\* step changes any other ref, whatever the arguments of the invocation.
C23_OnlyTheServersRef ==
    /\ [](/\ BRANCH_NAME \in ResolvedBranches
          /\ \A p \in Procs :
                inv[p].pc # "idle" => inv[p].branch = BRANCH_NAME)
    /\ [][/\ BRANCH_NAME' = BRANCH_NAME
          /\ \A b \in OtherBranches : refs'[b] = refs[b]
          /\ \A p \in Procs :
                (inv[p].pc = "getRef" /\ inv'[p].pc = "getCommit")
                => inv'[p].baseSha = refs[BRANCH_NAME]]_vars

\* an invocation has moved the ref of the server's branch, started for the
\* head branch of a pull request, and every other ref is where it was
C23_Witness ==
    /\ BRANCH_NAME = PrHeadBranch
    /\ \E p \in Procs :
        /\ Succeeded(p)
        /\ inv[p].branch = BRANCH_NAME
        /\ refs[BRANCH_NAME] = inv[p].result.commitSha
    /\ \A b \in OtherBranches : refs[b] = RootSha

\* the request paths of invocation p as its handler normalizes them, in
\* request order
NormalizedPaths(p) ==
    IF inv[p].tool = "commit_files" THEN ProcessFiles(inv[p].files)
    ELSE ProcessPaths(inv[p].files)

\* C24: on success the result agrees with the host: at the return the ref of
\* the branch is the reported commit; and from then on the reported commit is
\* a commit of the host made by this invocation, the reported tree is that
\* commit's tree, and the reported paths are the normalized request paths in
\* request order, which are the paths of that tree's entries.
C24_ResultMatchesHost ==
    /\ [][\A p \in Procs :
            (Returns(p) /\ inv'[p].tool \in CommitTools
                /\ inv'[p].result.kind = "success")
            => refs'[BRANCH_NAME] = inv'[p].result.commitSha]_vars
    /\ [](\A p \in Procs :
            Succeeded(p) =>
                LET r == inv[p].result IN
                /\ r.commitSha \in DOMAIN commits
                /\ commits[r.commitSha].by = Writer(p)
                /\ r.treeSha = commits[r.commitSha].tree
                /\ r.treeSha \in DOMAIN trees
                /\ r.paths = NormalizedPaths(p)
                /\ Len(r.paths) = Len(inv[p].files)
                /\ r.paths = EntryPaths(trees[r.treeSha].entries))

\* a request of two paths, one of them changed by the normalization, has
\* succeeded and its commit is the tip of the branch
C24_Witness ==
    \E p \in Procs :
        /\ Succeeded(p)
        /\ Len(inv[p].files) = 2
        /\ inv[p].result.paths # inv[p].files
        /\ inv[p].result.paths[1] # inv[p].result.paths[2]
        /\ ref = inv[p].result.commitSha

\* C25: no update is lost.  Under every interleaving of the invocations and
\* the other writer, against a host that takes fast-forward updates only, the
\* commit of every invocation that has returned success is, in every later
\* state, the tip of the branch or an ancestor of the tip.
C25_NoLostUpdate ==
    \A p \in Procs :
        Succeeded(p) => IsAncestor(inv[p].result.commitSha, ref)

\* two invocations have returned success with the other writer's push
\* between them: the first one's commit is no longer the tip, and two
\* commits lie on top of it
C25_Witness ==
    \E p, q \in Procs :
        /\ Succeeded(p) /\ Succeeded(q)
        /\ extPushed
        /\ ref = inv[q].result.commitSha
        /\ commits[commits[ref].parent].by = ExtWriter
        /\ commits[commits[ref].parent].parent = inv[p].result.commitSha

\* an absolute path that does not lie inside the working directory
OutsideCwd(filePath) ==
    StartsWith(filePath, Sep) /\ ~StartsWith(filePath, Cwd \o Sep)

\* the request of invocation p is to be rejected for its credential or for
\* one of its arguments
ToBeRejected(p) ==
    \/ ~GITHUB_TOKEN
    \/ /\ inv[p].tool = "delete_files"
       /\ \E i \in DOMAIN inv[p].files : OutsideCwd(inv[p].files[i])

\* invocation p has made no host request and left nothing on the host
NoHostRequest(p) ==
    /\ inv[p].calls = <<>>
    /\ \A c \in DOMAIN commits : commits[c].by # Writer(p)
    /\ \A t \in DOMAIN trees : trees[t].by # Writer(p)

\* C26: an invocation started without the credential, or a delete_files
\* given an absolute path that is not inside the working directory, has
\* returned an error payload and has made no host request: no ref read, no
\* tree, no commit, no ref update, whatever the other paths of the batch.
C26_RejectedBeforeHost ==
    \A p \in Procs :
        (inv[p].pc # "idle" /\ ToBeRejected(p))
        => /\ inv[p].pc = "done"
           /\ inv[p].result.kind = "error"
           /\ NoHostRequest(p)

====
